---- MODULE Spec2Model ----
(***************************************************************************)
(* Model of class `problem` of                                             *)
(* python/pressure_load_1.2/analytical_area_penalty1.2.2/Problem.py:       *)
(* the bending + area-penalty energy model with its pressure force and the *)
(* stateful quasi-Newton (secant) Hessian approximation.                   *)
(*                                                                         *)
(* Numbers.  The program computes in IEEE double precision.  The model     *)
(* computes exactly, in the rationals extended with the three non-finite   *)
(* values a division by zero produces in numpy: a number is a pair <<n,d>> *)
(* in lowest terms with d > 0, and <<1,0>> is +inf, <<-1,0>> is -inf and   *)
(* <<0,0>> is nan.  Rounding and the sign of zero are not modelled; the    *)
(* inputs are chosen so that every square root taken is rational.          *)
(***************************************************************************)
EXTENDS Integers, Sequences, FiniteSets, TLC

(***************************************************************************)
(* Extended rational arithmetic (numpy scalar semantics, exact).           *)
(***************************************************************************)
Abs(n) == IF n < 0 THEN -n ELSE n

Sgn(n) == IF n < 0 THEN -1 ELSE IF n > 0 THEN 1 ELSE 0

RECURSIVE Gcd(_, _)
Gcd(a, b) == IF b = 0 THEN a ELSE Gcd(b, a % b)

\* n/d in lowest terms; d = 0 yields +inf, -inf or nan by the sign of n.
Q(n, d) ==
  IF d = 0 THEN <<Sgn(n), 0>>
  ELSE LET g == Gcd(Abs(n), Abs(d))
           s == IF d < 0 THEN -1 ELSE 1
       IN  <<(s * n) \div g, (s * d) \div g>>

R(n) == <<n, 1>>

Zero == R(0)

NaN == <<0, 0>>

IsFinite(a) == a[2] # 0

IsZero(a) == a[2] # 0 /\ a[1] = 0

Neg(a) == <<-a[1], a[2]>>

\* inf + inf = inf, inf - inf = nan, nan + anything = nan.
Add(a, b) ==
  IF a[2] = 1 /\ b[2] = 1 THEN <<a[1] + b[1], 1>>
  ELSE IF a = Zero THEN b
  ELSE IF b = Zero THEN a
  ELSE IF a[2] = 0 /\ b[2] = 0 THEN (IF a = b THEN a ELSE NaN)
  ELSE LET g == Gcd(a[2], b[2])
           ka == IF g = 0 THEN a[2] ELSE a[2] \div g
           kb == IF g = 0 THEN b[2] ELSE b[2] \div g
       IN  Q(a[1] * kb + b[1] * ka, ka * b[2])

Sub(a, b) == Add(a, Neg(b))

\* inf * 0 = nan, nan * anything = nan.
Mul(a, b) ==
  IF a[2] = 1 /\ b[2] = 1 THEN <<a[1] * b[1], 1>>
  ELSE IF a[2] # 0 /\ b[2] # 0 /\ (a[1] = 0 \/ b[1] = 0) THEN Zero
  ELSE LET g == Gcd(Abs(a[1]), b[2])
           h == Gcd(Abs(b[1]), a[2])
       IN  IF g = 0 \/ h = 0 THEN Q(a[1] * b[1], a[2] * b[2])
           ELSE Q((a[1] \div g) * (b[1] \div h), (a[2] \div h) * (b[2] \div g))

\* 1/0 = inf, 1/inf = 0, 1/nan = nan.
Recip(b) == Q(b[2], b[1])

\* x/0 = +-inf for x # 0, 0/0 = nan, inf/inf = nan, x/inf = 0.
Div(a, b) == Mul(a, Recip(b))

\* a < 0 as numpy compares: nan < 0 is False.
IsNeg(a) == a[1] < 0

RECURSIVE RootSearch(_, _, _)
RootSearch(n, lo, hi) ==
  IF lo >= hi THEN lo
  ELSE LET mid == (lo + hi + 1) \div 2
       IN  IF mid * mid <= n THEN RootSearch(n, mid, hi)
                             ELSE RootSearch(n, lo, mid - 1)

\* The exact integer square root; undefined (a TLC error) for a non-square.
ISqrt(n) ==
  LET r == RootSearch(n, 0, n)
  IN  IF r * r = n THEN r ELSE CHOOSE k \in {} : TRUE

\* sqrt: sqrt(inf) = inf, sqrt of nan, -inf or a negative number = nan.
Sqrt(a) ==
  IF a[2] = 0 THEN (IF a[1] = 1 THEN a ELSE NaN)
  ELSE IF a[1] < 0 THEN NaN
  ELSE <<ISqrt(a[1]), ISqrt(a[2])>>

(***************************************************************************)
(* Vectors and matrices (numpy arrays), 1-based.                           *)
(***************************************************************************)
\* A function on 1..n as the sequence it is, with its elements evaluated once.
Tup(f) == f \o <<>>

RECURSIVE SumTo(_, _)
SumTo(f, n) == IF n = 0 THEN Zero ELSE Add(SumTo(f, n - 1), f[n])

\* The sum of a sequence of numbers, left to right.
Sum(f) == SumTo(f, Len(f))

VAdd(a, b) == Tup([i \in 1..Len(a) |-> Add(a[i], b[i])])

VSub(a, b) == Tup([i \in 1..Len(a) |-> Sub(a[i], b[i])])

VScale(k, a) == Tup([i \in 1..Len(a) |-> Mul(k, a[i])])

\* np.inner / np.dot of two 1-D arrays.
Inner(a, b) == Sum([i \in 1..Len(a) |-> Mul(a[i], b[i])])

\* np.outer.
Outer(a, b) == Tup([i \in 1..Len(a) |-> Tup([j \in 1..Len(b) |-> Mul(a[i], b[j])])])

\* np.linalg.norm of a 1-D array.
Norm(a) == Sqrt(Inner(a, a))

\* np.cross of two 3-vectors.
Cross(a, b) ==
  << Sub(Mul(a[2], b[3]), Mul(a[3], b[2])),
     Sub(Mul(a[3], b[1]), Mul(a[1], b[3])),
     Sub(Mul(a[1], b[2]), Mul(a[2], b[1])) >>

MAdd(A, B) == Tup([i \in 1..Len(A) |-> Tup([j \in 1..Len(A[i]) |-> Add(A[i][j], B[i][j])])])

MSub(A, B) == Tup([i \in 1..Len(A) |-> Tup([j \in 1..Len(A[i]) |-> Sub(A[i][j], B[i][j])])])

\* Entrywise division of a matrix by a scalar.
MDivScalar(A, k) ==
  LET r == Recip(k)
  IN  Tup([i \in 1..Len(A) |-> Tup([j \in 1..Len(A[i]) |-> Mul(A[i][j], r)])])

Transpose(A) == Tup([j \in 1..Len(A[1]) |-> Tup([i \in 1..Len(A) |-> A[i][j]])])

\* The matrix product A B.
MatMul(A, B) ==
  Tup([i \in 1..Len(A) |-> Tup([j \in 1..Len(B[1]) |->
     Sum([k \in 1..Len(B) |-> Mul(A[i][k], B[k][j])])])])

\* The matrix-vector product A x.
MatVec(A, x) == Tup([i \in 1..Len(A) |-> Inner(A[i], x)])

\* The entrywise (Hadamard) product: `*` between two ndarrays.
Hadamard(A, B) == Tup([i \in 1..Len(A) |-> Tup([j \in 1..Len(A[i]) |-> Mul(A[i][j], B[i][j])])])

Eye(n) == Tup([i \in 1..n |-> Tup([j \in 1..n |-> IF i = j THEN R(1) ELSE Zero])])

Zeros(n) == Tup([i \in 1..n |-> Zero])

VFinite(a) == \A i \in 1..Len(a) : IsFinite(a[i])

MFinite(A) == \A i \in 1..Len(A) : VFinite(A[i])

(***************************************************************************)
(* The mesh.  Vertices are numbered from 1 (the program numbers them from  *)
(* 0); a face is the triple of its vertex numbers.  The topology is the    *)
(* closed surface with the fewest triangles, the tetrahedron; only vertex  *)
(* positions vary between meshes.                                          *)
(***************************************************************************)
Faces == << <<1, 2, 3>>, <<1, 3, 4>>, <<1, 4, 2>>, <<2, 4, 3>> >>

NumV == Cardinality(UNION {{Faces[f][k] : k \in 1..3} : f \in 1..Len(Faces)})

NumF == Len(Faces)

\* np.size(self.mesh.vertices): the length 3V of every flattened vector.
Dim == 3 * NumV

\* A point with integer coordinates.
P(a, b, c) == <<R(a), R(b), R(c)>>

\* The quadrilateral with corners (-a,0), (0,-b), (a,0), (0,bp) folded into
\* a flat tetrahedron, drawn in the coordinate plane spanned by axes p and q
\* and moved by t along axis p.  All its face areas and curvature normals
\* are rational.
Kite(a, b, bp, p, q, t) ==
  LET pt(u, w) == Tup([c \in 1..3 |-> IF c = p THEN R(u + t) ELSE IF c = q THEN R(w) ELSE Zero])
  IN  << pt(-a, 0), pt(0, -b), pt(a, 0), pt(0, bp) >>

\* A mesh whose face (1,2,3) has its three corners on one line: rest area 0.
DegenerateRest == << P(-1, 0, 0), P(0, 0, 0), P(1, 0, 0), P(0, 1, 0) >>

\* The rest meshes an instance is built from: the unit diamond, and, for the
\* question what construction does with a zero-area face, the degenerate one.
RestMeshes == { Kite(1, 1, 1, 1, 2, 0) }

AnyMeshes == RestMeshes \cup { DegenerateRest }

\* np.reshape(M, 3V, order='F'): coordinate c of vertex v goes to (c-1)V + v.
FlattenF(verts) ==
  Tup([i \in 1..(3 * Len(verts)) |-> verts[((i - 1) % Len(verts)) + 1][((i - 1) \div Len(verts)) + 1]])

\* np.reshape(x, (V,3), order='F'): the inverse of FlattenF.
ReshapeF(x, nv) == Tup([v \in 1..nv |-> Tup([c \in 1..3 |-> x[(c - 1) * nv + v]])])

(***************************************************************************)
(* Services of the mesh library (pymesh), modelled by their definitions.   *)
(***************************************************************************)
\* The area vector (v2 - v1) x (v3 - v1) of face f.
FaceCross(verts, f) ==
  Cross(VSub(verts[Faces[f][2]], verts[Faces[f][1]]),
        VSub(verts[Faces[f][3]], verts[Faces[f][1]]))

\* Attribute "face_area": half the length of the area vector, per face.
FaceAreas(verts) ==
  Tup([f \in 1..NumF |-> Div(Norm(FaceCross(verts, f)), R(2))])

\* Attribute "face_normal": the unit normal, per face.
FaceNormals(verts) ==
  Tup([f \in 1..NumF |->
     LET n == FaceCross(verts, f)
         l == Norm(n)
     IN  Tup([c \in 1..3 |-> Div(n[c], l)])])

\* get_face_adjacent_faces(f): the faces sharing an edge with FACE f.
FaceAdjacentFaces(f) ==
  { g \in 1..NumF : g # f /\
      Cardinality({Faces[f][k] : k \in 1..3} \cap {Faces[g][k] : k \in 1..3}) = 2 }

\* The faces that have vertex v as a corner.
FacesOfVertex(v) == { f \in 1..NumF : v \in {Faces[f][k] : k \in 1..3} }

\* Assembler "lumped_mass": a third of the area of the faces around a vertex.
LumpedMass(verts) ==
  LET At == FaceAreas(verts)
  IN  Tup([v \in 1..NumV |->
         Div(Sum([f \in 1..NumF |-> IF f \in FacesOfVertex(v) THEN At[f] ELSE Zero]), R(3))])

\* The cotangent of the corner of face f at its k-th vertex.
Cot(verts, f, k) ==
  LET o == verts[Faces[f][k]]
      a == verts[Faces[f][(k % 3) + 1]]
      b == verts[Faces[f][((k + 1) % 3) + 1]]
  IN  Div(Inner(VSub(a, o), VSub(b, o)), Norm(FaceCross(verts, f)))

\* The weight of edge {i,j}: half the sum of the cotangents opposite to it.
EdgeWeight(verts, i, j) ==
  Sum([n \in 1..(3 * NumF) |->
     LET f == ((n - 1) \div 3) + 1
         k == ((n - 1) % 3) + 1
     IN  IF {Faces[f][(k % 3) + 1], Faces[f][((k + 1) % 3) + 1]} = {i, j}
           THEN Div(Cot(verts, f, k), R(2)) ELSE Zero])

\* Assembler "laplacian": the cotangent Laplacian (rows sum to zero).
Laplacian(verts) ==
  Tup([i \in 1..NumV |-> Tup([j \in 1..NumV |->
     IF i # j THEN EdgeWeight(verts, i, j)
     ELSE Neg(Sum([k \in 1..NumV |-> IF k = i THEN Zero ELSE EdgeWeight(verts, i, k)]))])])

\* sp_inv of the (diagonal) lumped mass matrix, kept as its diagonal.
InvMass(verts) == Tup([v \in 1..NumV |-> Recip(LumpedMass(verts)[v])])

\* diag(d) * A.
DiagMul(d, A) == Tup([i \in 1..Len(A) |-> Tup([j \in 1..Len(A[i]) |-> Mul(d[i], A[i][j])])])

\* scipy.sparse.block_diag((B, B, B)).
BlockDiag3(B) ==
  LET n == Len(B)
  IN  Tup([i \in 1..(3 * n) |-> Tup([j \in 1..(3 * n) |->
         IF (i - 1) \div n = (j - 1) \div n
           THEN B[((i - 1) % n) + 1][((j - 1) % n) + 1] ELSE Zero])])

(***************************************************************************)
(* class problem: the instance.                                            *)
(***************************************************************************)
VARIABLES
  mesh,          \* self.mesh.vertices: the rest positions, V x 3
  At0,           \* self.At0: rest face areas
  hess,          \* self.hess: the constant 3V x 3V bending Hessian
  laplacian,     \* self.laplacian: inv(M0) L
  penalty,       \* self.penalty
  pressure,      \* self.pressure
  x0,            \* self.x0: the flattened rest positions
  gradient_pre,  \* self.gradient_pre: the scalar 0, then a vector
  x_pre,         \* self.x_pre
  hess_pre,      \* self.hess_pre
  op,            \* the evaluator called last ("init" before any call)
  arg,           \* its argument x
  ret,           \* what it returned
  moves,         \* number of updating calls so far at an x other than x_pre
  hop,           \* the last updating call: "hessian", "hessian_penalty", or "" before any
  hx,            \* its argument (<<>> before any)
  hret,          \* what it returned
  regular        \* every update so far had finite non-zero denominators

qn == <<gradient_pre, x_pre, hess_pre>>

consts == <<mesh, At0, hess, laplacian, penalty, pressure, x0>>

obs == <<op, arg, ret>>

hist == <<moves, hop, hx, hret, regular>>

vars == <<mesh, At0, hess, laplacian, penalty, pressure, x0,
          gradient_pre, x_pre, hess_pre, op, arg, ret, moves, hop, hx, hret, regular>>

\* Bound on the number of hessian calls that move away from x_pre in one
\* run.  Calls that repeat the previous x are not bounded: the state they
\* lead to repeats.
MaxMoves == 2

\* The penalty weight and the pressure magnitude instances are built with.
Penalties == { R(1) }

Pressures == { R(2) }

\* The positions at which the optimizer asks for the Hessian: the rest
\* shape moved by one along x and stretched along y by 1, 2 and 3.  Exact
\* secant updates square their denominators at every step; along this
\* trajectory they stay within the integers of the model checker.
Trajectory ==
  { FlattenF(Kite(1, 1, 1, 1, 2, 1)),
    FlattenF(Kite(1, 2, 2, 1, 2, 1)),
    FlattenF(Kite(1, 3, 3, 1, 2, 1)) }

\* The position vectors x the optimizer passes to the other evaluators:
\* also shapes with four different face areas, in the other two planes.
Inputs ==
  Trajectory \cup
  { FlattenF(Kite(2, 1, 4, 2, 3, 0)),
    FlattenF(Kite(2, 4, 1, 3, 1, 1)) }

\* L^T inv(M0) L, the bending Hessian of one coordinate.
HessBlock(verts) ==
  LET L == Laplacian(verts)
  IN  MatMul(Transpose(L), DiagMul(InvMass(verts), L))

\* __init__: the instance right after construction from one of the meshes.
Construct(meshes) ==
  /\ mesh \in meshes
  /\ penalty \in Penalties
  /\ pressure \in Pressures
  /\ At0 = FaceAreas(mesh)
  /\ hess = BlockDiag3(HessBlock(mesh))
  /\ laplacian = DiagMul(InvMass(mesh), Laplacian(mesh))
  /\ x0 = FlattenF(mesh)
  /\ gradient_pre = Zero
  /\ x_pre = Zeros(Dim)
  /\ hess_pre = Eye(Dim)
  /\ op = "init" /\ arg = <<>> /\ ret = <<>>
  /\ moves = 0 /\ hop = "" /\ hx = <<>> /\ hret = <<>> /\ regular = TRUE

Init == Construct(RestMeshes)

InitAnyMesh == Construct(AnyMeshes)

(***************************************************************************)
(* The evaluators, as functions of the instance fields and x.              *)
(***************************************************************************)
\* x * H: np.matrix(x) * H, a row vector.
VecMat(x, H) == Tup([j \in 1..Len(H[1]) |-> Sum([i \in 1..Len(x) |-> Mul(x[i], H[i][j])])])

\* obj_func_bending: x H x^T / 2.
ObjFuncBending(H, x) == Div(Inner(VecMat(x, H), x), R(2))

\* obj_func_penalty: penalty * norm((At - At0)/sqrt(At0))^2.  The square of
\* the norm is the sum of the squares ((At - At0)/sqrt(At0))^2, each of which
\* is (At - At0)^2 / At0, also where At0 = 0 (inf or nan on both sides).
ObjFuncPenalty(pen, A0, x) ==
  LET At == FaceAreas(ReshapeF(x, NumV))
  IN  Mul(pen, Sum([f \in 1..NumF |->
         Div(Mul(Sub(At[f], A0[f]), Sub(At[f], A0[f])), A0[f])]))

\* gradient_bending: self.hess * x
GradientBending(H, x) == MatVec(H, x)

RECURSIVE SortedSeq(_)
\* The elements of a finite set of integers in increasing order.
SortedSeq(S) ==
  IF S = {} THEN <<>>
  ELSE LET m == CHOOSE a \in S : \A b \in S : a <= b
       IN  <<m>> \o SortedSeq(S \ {m})

\* np.setdiff1d(mesh.faces[f], v): sorted, without v.
SetDiff1d(face, v) == SortedSeq({face[k] : k \in 1..3} \ {v})

\* The faces the inner loop of gradient_penalty visits for vertex v:
\* range(np.size(get_face_adjacent_faces(v))), that is the first n faces of
\* the mesh, n being the number of faces adjacent to FACE number v.
LoopFaces(v) == 1..Cardinality(FaceAdjacentFaces(v))

\* One pass of the inner loop body for vertex v and face f: the signed
\* gradient of the area of f and its weight.
FaceTerm(A0, verts, normals, At, v, f) ==
  LET tri_v == SetDiff1d(Faces[f], v)
      edge == VSub(verts[tri_v[1]], verts[tri_v[2]])
      g == Cross(normals[f], edge)
      w == VSub(verts[v], verts[tri_v[1]])
      \* dot/(|g| |w|) < 0: the norms are positive, or zero with dot = 0 and
      \* nan < 0 False, or non-finite with the quotient 0 or nan.
      flip == VFinite(g) /\ VFinite(w) /\ IsNeg(Inner(g, w))
      gradient == IF flip THEN Tup([c \in 1..3 |-> Neg(g[c])]) ELSE g
  IN  Tup([c \in 1..3 |-> Div(Mul(Mul(R(2), gradient[c]), Sub(At[f], A0[f])), A0[f])])

RECURSIVE AccumulateTo(_, _, _, _, _, _)
\* av after the inner loop has visited faces 1..n.
AccumulateTo(A0, verts, normals, At, v, n) ==
  IF n = 0 THEN Zeros(3)
  ELSE VAdd(AccumulateTo(A0, verts, normals, At, v, n - 1),
            FaceTerm(A0, verts, normals, At, v, n))

\* av for vertex v: the sum over the faces the loop visits.
VertexAccum(A0, x, v) ==
  LET verts == ReshapeF(x, NumV)
  IN  AccumulateTo(A0, verts, FaceNormals(verts), FaceAreas(verts), v,
                   Cardinality(LoopFaces(v)))

\* a[3*v:3*v+3] = av: where component c of vertex v is stored.
StoreIndex(v, c) == 3 * (v - 1) + c

\* gradient_penalty
GradientPenalty(pen, A0, x) ==
  LET av == Tup([v \in 1..NumV |-> VertexAccum(A0, x, v)])
      \* a = np.zeros(...), then one slice assignment per vertex, in order.
      a == Tup([i \in 1..Dim |->
              LET writers == {p \in (1..NumV) \X (1..3) : StoreIndex(p[1], p[2]) = i}
                  last == CHOOSE p \in writers : \A q \in writers : q[1] <= p[1]
              IN  IF writers = {} THEN Zero ELSE av[last[1]][last[2]]])
  IN  VScale(pen, a)

\* force
Force(lap, pres, x) ==
  LET vector == MatMul(lap, ReshapeF(x, NumV))
      unit == Tup([v \in 1..NumV |->
                 LET l == Norm(vector[v]) IN Tup([c \in 1..3 |-> Div(vector[v][c], l)])])
  IN  VScale(pres, FlattenF(unit))

\* obj_func with a potential -pressure * (force direction . x) added: what a
\* conservative treatment of the pressure would put into the objective.
ObjFuncWithPressure(H, pen, A0, x) ==
  Sub(Add(ObjFuncBending(H, x), ObjFuncPenalty(pen, A0, x)),
      Inner(Force(laplacian, pressure, x), x))

\* obj_func
ObjFunc(H, pen, A0, x) == Add(ObjFuncBending(H, x), ObjFuncPenalty(pen, A0, x))

\* gradient: a + b + c
Gradient(H, lap, pen, pres, A0, x) ==
  VAdd(VAdd(GradientBending(H, x), GradientPenalty(pen, A0, x)), Force(lap, pres, x))

\* hessian_bending
HessianBending(H) == H

\* grad - self.gradient_pre: gradient_pre is the scalar 0 until the first
\* Hessian evaluation (numpy broadcasts it), a vector afterwards.
IsScalar(g) == Len(g) = 2 /\ g[1] \in Int

SubPre(grad, gpre) ==
  IF IsScalar(gpre) THEN Tup([i \in 1..Len(grad) |-> Sub(grad[i], gpre)])
                    ELSE VSub(grad, gpre)

\* np.inner(y, s): the denominator of C.
DenomC(y, s) == Inner(y, s)

\* np.matrix(s) * hess_pre * np.matrix(s).T: the denominator of D.
DenomD(Hp, s) == Inner(VecMat(s, Hp), s)

\* C with the outer product of y and s in place of that of y with itself.
SecantCys(y, s) == MDivScalar(Outer(y, s), DenomC(y, s))

\* C = np.outer(y,y) / np.inner(y,s)
SecantC(y, s) == MDivScalar(Outer(y, y), DenomC(y, s))

\* D = (hess_pre * np.outer(s,s) * hess_pre.T) / (s hess_pre s^T), where `*`
\* between the ndarrays hess_pre, outer(s,s) and hess_pre.T is entrywise.
SecantD(Hp, s) ==
  MDivScalar(Hadamard(Hadamard(Hp, Outer(s, s)), Transpose(Hp)), DenomD(Hp, s))

\* grad = self.gradient_penalty(x) + self.force(x)
PenaltyForce(lap, pen, pres, A0, x) ==
  VAdd(GradientPenalty(pen, A0, x), Force(lap, pres, x))

\* hess = self.hess_pre + C - D
SecantUpdate(Hp, y, s) == MSub(MAdd(Hp, SecantC(y, s)), SecantD(Hp, s))

\* The end of hessian_penalty: the three assignments and the return value.
StoreAndReturn(h, grad, x) ==
  [ret |-> h, gradient_pre |-> grad, x_pre |-> x, hess_pre |-> h]

\* hessian_penalty once grad is known: s = x - x_pre, y = grad - gradient_pre.
HessianPenaltyWith(gpre, xpre, Hp, grad, x) ==
  StoreAndReturn(SecantUpdate(Hp, SubPre(grad, gpre), VSub(x, xpre)), grad, x)

\* hessian_penalty: the matrix it returns and the three fields it assigns.
HessianPenalty(lap, pen, pres, A0, gpre, xpre, Hp, x) ==
  HessianPenaltyWith(gpre, xpre, Hp, PenaltyForce(lap, pen, pres, A0, x), x)

\* hessian storing the sum it returns as hess_pre as well.
PlusBendingStored(H, r) ==
  [r EXCEPT !.ret = MAdd(HessianBending(H), r.ret),
            !.hess_pre = MAdd(HessianBending(H), r.ret)]

\* The sum formed by hessian: the bending block plus what hessian_penalty returned.
PlusBending(H, r) == [r EXCEPT !.ret = MAdd(HessianBending(H), r.ret)]

\* hessian: hessian_bending() + hessian_penalty(x)
Hessian(H, lap, pen, pres, A0, gpre, xpre, Hp, x) ==
  PlusBending(H, HessianPenalty(lap, pen, pres, A0, gpre, xpre, Hp, x))

(***************************************************************************)
(* The operations: one action per evaluator call by the optimizer.         *)
(***************************************************************************)
\* An evaluator that keeps the vector it returns as the previous gradient.
ReturnsCaching(name, x, value) ==
  /\ op' = name /\ arg' = x /\ ret' = value
  /\ gradient_pre' = IF name = "gradient" THEN value ELSE gradient_pre
  /\ UNCHANGED <<x_pre, hess_pre, consts, hist>>

\* A call that assigns no instance field: only the observation changes.
Returns(name, x, value) ==
  /\ op' = name /\ arg' = x /\ ret' = value
  /\ UNCHANGED <<qn, consts, hist>>

obj_func_bending ==
  \E x \in Inputs : Returns("obj_func_bending", x, ObjFuncBending(hess, x))

obj_func_penalty ==
  \E x \in Inputs : Returns("obj_func_penalty", x, ObjFuncPenalty(penalty, At0, x))

obj_func ==
  \E x \in Inputs : Returns("obj_func", x, ObjFunc(hess, penalty, At0, x))

gradient_bending ==
  \E x \in Inputs : Returns("gradient_bending", x, GradientBending(hess, x))

gradient_penalty ==
  \E x \in Inputs : Returns("gradient_penalty", x, GradientPenalty(penalty, At0, x))

force ==
  \E x \in Inputs : Returns("force", x, Force(laplacian, pressure, x))

gradient ==
  \E x \in Inputs :
     Returns("gradient", x, Gradient(hess, laplacian, penalty, pressure, At0, x))

hessian_bending ==
  Returns("hessian_bending", <<>>, HessianBending(hess))

\* Whether both denominators of the update by y and s are finite and non-zero.
RegularStep(Hp, y, s) ==
  /\ IsFinite(DenomC(y, s)) /\ ~IsZero(DenomC(y, s))
  /\ IsFinite(DenomD(Hp, s)) /\ ~IsZero(DenomD(Hp, s))

\* The same for a hessian call with x in the current state.
Regular(x) ==
  RegularStep(hess_pre,
              SubPre(PenaltyForce(laplacian, penalty, pressure, At0, x), gradient_pre),
              VSub(x, x_pre))

\* What a call of hessian_penalty or hessian with x leaves behind, r being
\* the value returned and the three fields as hessian_penalty assigned them.
Stores(name, x, r) ==
  /\ x # x_pre => moves < MaxMoves
  /\ gradient_pre' = r.gradient_pre
  /\ x_pre' = r.x_pre
  /\ hess_pre' = r.hess_pre
  /\ op' = name /\ arg' = x /\ ret' = r.ret
  /\ hop' = name /\ hx' = x /\ hret' = r.ret
  /\ moves' = IF x # x_pre THEN moves + 1 ELSE moves
  /\ regular' = (regular /\ Regular(x))
  /\ UNCHANGED consts

\* hessian_penalty(x): the secant update; assigns gradient_pre, x_pre, hess_pre.
hessian_penalty ==
  \E x \in Trajectory :
     \E r \in { HessianPenalty(laplacian, penalty, pressure, At0,
                               gradient_pre, x_pre, hess_pre, x) } :
        Stores("hessian_penalty", x, r)

\* hessian(x): returns hessian_bending() + hessian_penalty(x).
hessian ==
  \E x \in Trajectory :
     \E r \in { Hessian(hess, laplacian, penalty, pressure, At0,
                        gradient_pre, x_pre, hess_pre, x) } :
        Stores("hessian", x, r)

Next ==
  \/ obj_func_bending
  \/ obj_func_penalty
  \/ obj_func
  \/ gradient_bending
  \/ gradient_penalty
  \/ force
  \/ gradient
  \/ hessian_bending
  \/ hessian_penalty
  \/ hessian

Spec == Init /\ [][Next]_vars

\* The same operations on an instance built from any mesh, degenerate or not.
SpecAnyMesh == InitAnyMesh /\ [][Next]_vars

(***************************************************************************)
(* Properties.                                                             *)
(***************************************************************************)
PureOps ==
  { "obj_func_bending", "obj_func_penalty", "obj_func", "gradient_bending",
    "gradient_penalty", "force", "gradient", "hessian_bending" }

\* C1: right after construction the quasi-Newton state is (0, zero vector,
\* identity); after any sequence of calls whose last updating call had the
\* argument hx, x_pre is hx and gradient_pre is gradient_penalty(hx) +
\* force(hx); if that call was hessian_penalty, hess_pre is the matrix it
\* returned, and if it was hessian, the matrix it returned is the bending
\* block plus hess_pre, so hess_pre holds the update alone.
C1_Lifecycle ==
  /\ hop = "" =>
       /\ gradient_pre = Zero
       /\ x_pre = Zeros(Dim)
       /\ hess_pre = Eye(Dim)
  /\ hop # "" =>
       /\ x_pre = hx
       /\ gradient_pre = PenaltyForce(laplacian, penalty, pressure, At0, hx)
  /\ hop = "hessian_penalty" => hess_pre = hret
  /\ hop = "hessian" =>
       /\ hret = MAdd(HessianBending(hess), hess_pre)
       /\ MFinite(hret) => hess_pre = MSub(hret, HessianBending(hess))

\* Two moves of the trajectory later, with other evaluators called since.
C1_Witness ==
  /\ moves = MaxMoves /\ hop = "hessian" /\ op \in PureOps
  /\ MFinite(hess_pre) /\ hess_pre # Eye(Dim)
  /\ gradient_pre # Force(laplacian, pressure, hx)

\* C2: a call of any evaluator other than hessian leaves gradient_pre, x_pre
\* and hess_pre, and the constant fields, as they were.
C2_PureFrame ==
  [][op' \in PureOps => UNCHANGED <<gradient_pre, x_pre, hess_pre,
                                    mesh, At0, hess, laplacian, penalty, pressure, x0>>]_vars

\* gradient was called between two hessian calls.
C2_Witness == op = "gradient" /\ hop = "hessian" /\ moves = 1 /\ gradient_pre # ret

\* C3: hessian called again with the x of the previous hessian call returns a
\* matrix different from the one that call returned.
C3_NotIdempotent ==
  [][(op' = "hessian" /\ hop = "hessian" /\ arg' = hx) => hret' # hret]_vars

\* C4: coordinate c of vertex v sits at index (c-1)V + v (counting from 1)
\* of x0 and of the vector gradient_penalty returns: the entry there is the
\* penalty times component c of what was accumulated for vertex v.
C4_ColumnMajor ==
  /\ \A v \in 1..NumV, c \in 1..3 : x0[(c - 1) * NumV + v] = mesh[v][c]
  /\ op = "gradient_penalty" =>
       \A v \in 1..NumV, c \in 1..3 :
          ret[(c - 1) * NumV + v] = Mul(penalty, VertexAccum(At0, arg, v)[c])

\* Whether a denominator of the update for x in the current state is zero.
ZeroDenominator(x) ==
  LET s == VSub(x, x_pre)
  IN  \/ IsZero(DenomD(hess_pre, s))
      \/ IsZero(DenomC(SubPre(PenaltyForce(laplacian, penalty, pressure, At0, x),
                              gradient_pre), s))

\* C5: a hessian call whose update has a zero denominator leaves
\* gradient_pre, x_pre and hess_pre as they were (the update is skipped, or
\* the call fails).
C5_GuardedUpdate ==
  [][(op' \in {"hessian", "hessian_penalty"} /\ ZeroDenominator(arg')) =>
        UNCHANGED <<gradient_pre, x_pre, hess_pre>>]_vars

\* C6: as long as every hessian call had finite non-zero denominators,
\* hess_pre equals its transpose, and so does the matrix hessian returned.
C6_Symmetric ==
  regular => /\ hess_pre = Transpose(hess_pre)
             /\ hop # "" => hret = Transpose(hret)

\* Two regular updates, the second from a matrix that is not the identity.
C6_Witness == regular /\ moves = MaxMoves /\ hop = "hessian" /\ hess_pre # Eye(Dim)

\* C7: obj_func returns obj_func_bending + obj_func_penalty, without a
\* pressure term; gradient returns gradient_bending + gradient_penalty +
\* force, and would return another vector under another pressure.
C7_Composition ==
  /\ op = "obj_func" =>
       ret = Add(ObjFuncBending(hess, arg), ObjFuncPenalty(penalty, At0, arg))
  /\ op = "gradient" =>
       /\ ret = VAdd(VAdd(GradientBending(hess, arg), GradientPenalty(penalty, At0, arg)),
                     Force(laplacian, pressure, arg))
       /\ ret # Gradient(hess, laplacian, penalty, Add(pressure, R(1)), At0, arg)

\* obj_func at a position where the force does work and the penalty is not 0.
C7_Witness ==
  /\ op = "obj_func"
  /\ ~IsZero(Inner(Force(laplacian, pressure, arg), arg))
  /\ ~IsZero(ObjFuncPenalty(penalty, At0, arg))

\* C8: no instance has a rest face of area zero.
C8_NoZeroRestArea == \A f \in 1..NumF : ~IsZero(At0[f])

\* What gradient_penalty would accumulate for vertex v over the faces that
\* have v as a corner.
RECURSIVE SumTerms(_, _, _, _, _, _)
SumTerms(A0, verts, normals, At, v, fs) ==
  IF fs = {} THEN Zeros(3)
  ELSE LET f == CHOOSE g \in fs : \A h \in fs : g <= h
       IN  VAdd(FaceTerm(A0, verts, normals, At, v, f),
                SumTerms(A0, verts, normals, At, v, fs \ {f}))

AdjacentAccum(A0, x, v) ==
  LET verts == ReshapeF(x, NumV)
  IN  SumTerms(A0, verts, FaceNormals(verts), FaceAreas(verts), v, FacesOfVertex(v))

\* C9: for every vertex v the faces summed are exactly the faces with v as a
\* corner, so what gradient_penalty stores for v is the penalty times the sum
\* of the terms of those faces.
C9_AdjacentFaces ==
  op = "gradient_penalty" =>
    \A v \in 1..NumV :
       /\ LoopFaces(v) = FacesOfVertex(v)
       /\ \A c \in 1..3 :
             ret[StoreIndex(v, c)] = Mul(penalty, AdjacentAccum(At0, arg, v)[c])

\* D with the matrix product H (s s^T) H^T = (H s)(H s)^T as its numerator,
\* hs being the product H s.
MatrixD(Hp, s, hs) == MDivScalar(Outer(hs, hs), DenomD(Hp, s))

\* C10: a hessian call with finite non-zero denominators stores
\* H_prev + C - D with D = (H_prev s s^T H_prev^T) / (s^T H_prev s), a
\* matrix product.
C10_RankTwoUpdate ==
  [][(op' \in {"hessian", "hessian_penalty"} /\ Regular(arg')) =>
        \A s \in { VSub(arg', x_pre) } :
        \A y \in { SubPre(PenaltyForce(laplacian, penalty, pressure, At0, arg'),
                          gradient_pre) } :
        \A hs \in { MatVec(hess_pre, s) } :
           hess_pre' = MSub(MAdd(hess_pre, SecantC(y, s)), MatrixD(hess_pre, s, hs))]_vars

====
